---- MODULE Spec2Model ----
(***************************************************************************)
(* The API explorer page: Index (src/pages/Index.tsx) holds the selected   *)
(* endpoint id and renders one ApiTestPanel (src/components/               *)
(* ApiTestPanel.tsx) for it.  The panel is rendered without a key, so its  *)
(* React state (apiKey, selectedFiles, formData, pathParams, response,     *)
(* responseStatus, isLoading, error) lives across endpoint changes.        *)
(* Strings are TLA+ strings; JavaScript's undefined is an absent key.      *)
(***************************************************************************)
EXTENDS Integers, Sequences, FiniteSets, TLC

VARIABLES
    endpoints,          \* the catalog handed to ApiSidebar / searched by Index
    selectedEndpoint,   \* Index: useState("classify")
    apiKey,             \* ApiTestPanel state
    selectedFiles,
    formData,
    pathParams,
    response,
    responseStatus,
    isLoading,
    error,
    inflight,           \* suspended handleApiCall invocations (await points)
    effects             \* calls to fetch / toast made by the last step

vars == <<endpoints, selectedEndpoint, apiKey, selectedFiles, formData,
          pathParams, response, responseStatus, isLoading, error, inflight,
          effects>>

panelState == <<apiKey, selectedFiles, formData, pathParams, response,
                responseStatus, isLoading, error>>

(***************************************************************************)
(* Bounds of the exploration.                                              *)
(***************************************************************************)
MaxFiles == 2          \* longest selectedFiles list explored
MaxInflight == 2       \* most handleApiCall invocations suspended at once
MaxPick == 2           \* most files handed over by one change event

Files == {"A", "B"}
ApiKeyInputs == {"", " ", "k"}
FieldInputs == {" ", "q"}
PathParamInputs == {" ", "abc123"}
null == <<>>            \* a number | null state holds <<>> or <<n>>

(***************************************************************************)
(* The endpoint catalog.                                                   *)
(***************************************************************************)
realEndpoints ==
    << [ id |-> "classify", method |-> "POST", path |-> "/v1/classify",
         parameters |-> <<>>,
         requestBodyType |-> "multipart/form-data",
         fileUpload |-> [required |-> TRUE, multiple |-> FALSE, name |-> "file"] ],
       [ id |-> "extract-async", method |-> "POST", path |-> "/v1/extract/async",
         parameters |-> <<>>,
         requestBodyType |-> "multipart/form-data",
         fileUpload |-> [required |-> TRUE, multiple |-> TRUE, name |-> "files"],
         formFields |-> << [name |-> "query", required |-> TRUE],
                           [name |-> "tags", required |-> FALSE, defaultValue |-> "[]"] >> ],
       [ id |-> "extract", method |-> "POST", path |-> "/v1/extract",
         parameters |-> <<>>,
         requestBodyType |-> "multipart/form-data",
         fileUpload |-> [required |-> TRUE, multiple |-> TRUE, name |-> "files"],
         formFields |-> << [name |-> "query", required |-> TRUE],
                           [name |-> "tags", required |-> FALSE, defaultValue |-> "[]"] >> ],
       [ id |-> "trace", method |-> "GET", path |-> "/v1/trace_id/{trace_id}",
         parameters |-> << [name |-> "trace_id", required |-> TRUE, in |-> "path"] >> ] >>

\* The catalog of the page's first variant: no request body type, file upload
\* or form fields, and a trace_id parameter without `in`.
mockEndpoints ==
    << [ id |-> "classify", method |-> "POST", path |-> "/v1/classify",
         parameters |-> <<>> ],
       [ id |-> "extract-async", method |-> "POST", path |-> "/v1/extract/async",
         parameters |-> <<>> ],
       [ id |-> "extract", method |-> "POST", path |-> "/v1/extract",
         parameters |-> <<>> ],
       [ id |-> "trace", method |-> "GET", path |-> "/v1/trace_id/{trace_id}",
         parameters |-> << [name |-> "trace_id", required |-> TRUE] >> ] >>

\* A value of the ApiEndpoint interface that uses every optional member at
\* once: file upload, form fields and a path parameter.
panelEndpoint ==
    [ id |-> "panel", method |-> "PUT", path |-> "/v1/panel/{trace_id}",
      parameters |-> << [name |-> "trace_id", required |-> TRUE, in |-> "path"] >>,
      requestBodyType |-> "multipart/form-data",
      fileUpload |-> [required |-> TRUE, multiple |-> FALSE, name |-> "file"],
      formFields |-> << [name |-> "query", required |-> TRUE],
                        [name |-> "tags", required |-> FALSE, defaultValue |-> "[]"] >> ]

\* Optional members: `x?.forEach` over an absent list visits nothing.
Has(r, k) == k \in DOMAIN r
parametersOf(ep) == IF Has(ep, "parameters") THEN ep.parameters ELSE <<>>
formFieldsOf(ep) == IF Has(ep, "formFields") THEN ep.formFields ELSE <<>>

RECURSIVE find(_, _, _)
find(eps, id, i) ==
    IF i > Len(eps) THEN 0
    ELSE IF eps[i].id = id THEN i ELSE find(eps, id, i + 1)

\* realEndpoints.find(ep => ep.id === selectedEndpoint) || realEndpoints[0]
currentEndpointOf(eps, id) ==
    IF find(eps, id, 1) = 0 THEN eps[1] ELSE eps[find(eps, id, 1)]

endpoint == currentEndpointOf(endpoints, selectedEndpoint)

(***************************************************************************)
(* String helpers (String.prototype.trim, indexOf, replace, Array.join).   *)
(***************************************************************************)
CharAt(s, i) == SubSeq(s, i, i)
IsWhiteSpace(c) == c \in {" ", "\t", "\n", "\r"}

RECURSIVE trimStart(_)
trimStart(s) ==
    IF Len(s) = 0 THEN s
    ELSE IF IsWhiteSpace(CharAt(s, 1)) THEN trimStart(SubSeq(s, 2, Len(s))) ELSE s

RECURSIVE trimEnd(_)
trimEnd(s) ==
    IF Len(s) = 0 THEN s
    ELSE IF IsWhiteSpace(CharAt(s, Len(s))) THEN trimEnd(SubSeq(s, 1, Len(s) - 1)) ELSE s

\* variant of trim: white space is kept
trim_none(s) == s

trim(s) == trimEnd(trimStart(s))

\* 1-based position of the first occurrence of pat in s, 0 when there is none
indexOf(s, pat) ==
    LET hits == { i \in 1..(Len(s) - Len(pat) + 1) : SubSeq(s, i, i + Len(pat) - 1) = pat }
    IN  IF hits = {} THEN 0 ELSE CHOOSE i \in hits : \A j \in hits : i <= j

\* The replacement string of String.prototype.replace: $$ stands for a
\* dollar sign and $& for the matched text (the before/after-match forms
\* are outside the input alphabet).
RECURSIVE expandReplacement(_, _)
expandReplacement(rep, matched) ==
    IF Len(rep) = 0 THEN ""
    ELSE IF CharAt(rep, 1) = "$" /\ Len(rep) >= 2 /\ CharAt(rep, 2) \in {"$", "&"}
         THEN (IF CharAt(rep, 2) = "$" THEN "$" ELSE matched)
              \o expandReplacement(SubSeq(rep, 3, Len(rep)), matched)
         ELSE CharAt(rep, 1) \o expandReplacement(SubSeq(rep, 2, Len(rep)), matched)

\* s.replace(pat, rep) with a string pattern: the first occurrence only
replace(s, pat, rep) ==
    LET i == indexOf(s, pat) IN
    IF i = 0 THEN s
    ELSE LET before == SubSeq(s, 1, i - 1)
             after == SubSeq(s, i + Len(pat), Len(s))
         IN  before \o expandReplacement(rep, pat) \o after

RECURSIVE join(_, _)
join(xs, sep) ==
    IF Len(xs) = 0 THEN ""
    ELSE IF Len(xs) = 1 THEN xs[1]
    ELSE xs[1] \o sep \o join(Tail(xs), sep)

(***************************************************************************)
(* Record<string, string>: a function whose domain is the set of keys.     *)
(***************************************************************************)
emptyRecord == [k \in {} |-> ""]
withKey(rec, name, value) ==
    [k \in DOMAIN rec \cup {name} |-> IF k = name THEN value ELSE rec[k]]

\* variant of blank: the value is tested without trim()
blank_untrimmed(rec, name) == ~Has(rec, name) \/ rec[name] = ""

\* !rec[name]?.trim()
blank(rec, name) == ~Has(rec, name) \/ trim(rec[name]) = ""
\* rec[name] used as a condition: undefined and "" are falsy
truthy(rec, name) == Has(rec, name) /\ rec[name] # ""

(***************************************************************************)
(* ApiTestPanel: state initialisation and the input handlers.              *)
(***************************************************************************)
\* The initializer passed to useState (with a dependency list that useState
\* ignores): it runs when the panel mounts and never again.
RECURSIVE initialFormData(_, _)
initialFormData(fields, acc) ==
    IF Len(fields) = 0 THEN acc
    ELSE initialFormData(Tail(fields),
             withKey(acc, fields[1].name,
                     IF Has(fields[1], "defaultValue") /\ fields[1].defaultValue # ""
                     THEN fields[1].defaultValue ELSE ""))

PanelInit ==
    /\ apiKey = ""
    /\ selectedFiles = <<>>
    /\ formData = initialFormData(formFieldsOf(endpoint), emptyRecord)
    /\ pathParams = emptyRecord
    /\ response = ""
    /\ responseStatus = null
    /\ isLoading = FALSE
    /\ error = ""
    /\ inflight = <<>>
    /\ effects = <<>>

Init ==
    /\ endpoints = realEndpoints
    /\ selectedEndpoint = "classify"
    /\ PanelInit

\* The same page over a catalog that also lists panelEndpoint.
InitPanel ==
    /\ endpoints = Append(realEndpoints, panelEndpoint)
    /\ selectedEndpoint = "classify"
    /\ PanelInit

\* Files the picker can hand over in one change event
Picks == { p \in UNION { [1..n -> Files] : n \in 0..MaxPick } :
             \A i, j \in DOMAIN p : i # j => p[i] # p[j] }

\* variant of slice01: every supplied file is kept
slice01_all(files) == files

\* files.slice(0, 1)
slice01(files) == IF Len(files) = 0 THEN <<>> ELSE <<files[1]>>

filesAfterSelect(ep, prev, files) ==
    IF Has(ep, "fileUpload") /\ ep.fileUpload.multiple
    THEN prev \o files
    ELSE slice01(files)

\* variant of onSelectEndpoint: the switch empties the API key input
onSelectEndpoint_clearsKey(id) ==
    /\ selectedEndpoint' = id
    /\ apiKey' = ""
    /\ effects' = <<>>
    /\ UNCHANGED <<endpoints, selectedFiles, formData, pathParams, response,
                   responseStatus, isLoading, error, inflight>>

\* Sidebar button: onSelectEndpoint(endpoint.id) = setSelectedEndpoint.  The
\* panel is re-rendered with the new endpoint prop; none of its state is
\* touched.
onSelectEndpoint(id) ==
    /\ selectedEndpoint' = id
    /\ effects' = <<>>
    /\ UNCHANGED <<endpoints, panelState, inflight>>

\* onChange of the API key input: the typed value differs from the shown one
setApiKey(value) ==
    /\ value # apiKey
    /\ apiKey' = value
    /\ effects' = <<>>
    /\ UNCHANGED <<endpoints, selectedEndpoint, selectedFiles, formData, pathParams,
                   response, responseStatus, isLoading, error, inflight>>

\* The file input exists only when the endpoint has a fileUpload.
handleFileSelect(files) ==
    /\ Has(endpoint, "fileUpload")
    /\ Len(filesAfterSelect(endpoint, selectedFiles, files)) <= MaxFiles
    /\ selectedFiles' = filesAfterSelect(endpoint, selectedFiles, files)
    /\ effects' = <<>>
    /\ UNCHANGED <<endpoints, selectedEndpoint, apiKey, formData, pathParams,
                   response, responseStatus, isLoading, error, inflight>>

\* prev.filter((_, i) => i !== index), index counted from 0
RECURSIVE filterFrom(_, _, _)
filterFrom(prev, index, i) ==
    IF i > Len(prev) THEN <<>>
    ELSE IF i - 1 # index THEN <<prev[i]>> \o filterFrom(prev, index, i + 1)
    ELSE filterFrom(prev, index, i + 1)

\* variant of filterOut: the files before the index are dropped as well
filterOut_upTo(prev, index) == SubSeq(prev, index + 2, Len(prev))

filterOut(prev, index) == filterFrom(prev, index, 1)

\* One remove button per listed file, inside the file upload card.
removeFile(index) ==
    /\ Has(endpoint, "fileUpload")
    /\ index \in 0..(Len(selectedFiles) - 1)
    /\ selectedFiles' = filterOut(selectedFiles, index)
    /\ effects' = <<>>
    /\ UNCHANGED <<endpoints, selectedEndpoint, apiKey, formData, pathParams,
                   response, responseStatus, isLoading, error, inflight>>

\* rec[name] || "", the value an input shows
shown(rec, name) == IF Has(rec, name) THEN rec[name] ELSE ""

\* One input per form field of the endpoint; onChange brings a value other
\* than the one shown.
handleFormDataChange(name, value) ==
    /\ \E i \in DOMAIN formFieldsOf(endpoint) : formFieldsOf(endpoint)[i].name = name
    /\ value # shown(formData, name)
    /\ formData' = withKey(formData, name, value)
    /\ effects' = <<>>
    /\ UNCHANGED <<endpoints, selectedEndpoint, apiKey, selectedFiles, pathParams,
                   response, responseStatus, isLoading, error, inflight>>

isPathParam(param) == Has(param, "in") /\ param.in = "path"

\* One input per parameter with in === "path".
handlePathParamChange(name, value) ==
    /\ \E i \in DOMAIN parametersOf(endpoint) :
          /\ isPathParam(parametersOf(endpoint)[i])
          /\ parametersOf(endpoint)[i].name = name
    /\ value # shown(pathParams, name)
    /\ pathParams' = withKey(pathParams, name, value)
    /\ effects' = <<>>
    /\ UNCHANGED <<endpoints, selectedEndpoint, apiKey, selectedFiles, formData,
                   response, responseStatus, isLoading, error, inflight>>

(***************************************************************************)
(* handleApiCall up to its first await.                                    *)
(***************************************************************************)
BaseUrl == "https://kong-uat-proxy.hachiai.com/quest"

RECURSIVE replacePathParams(_, _, _)
replacePathParams(url, params, pp) ==
    IF Len(params) = 0 THEN url
    ELSE replacePathParams(
             IF isPathParam(params[1]) /\ truthy(pp, params[1].name)
             THEN replace(url, "{" \o params[1].name \o "}", pp[params[1].name])
             ELSE url,
             Tail(params), pp)

buildApiUrl(ep, pp) == replacePathParams(BaseUrl \o ep.path, parametersOf(ep), pp)

\* variant of fileMissing: the file requirement is not checked
fileMissing_unchecked(ep, files) == <<>>

fileMissing(ep, files) ==
    IF Has(ep, "fileUpload") /\ ep.fileUpload.required /\ Len(files) = 0
    THEN <<"file(s)">> ELSE <<>>

RECURSIVE fieldsMissing(_, _)
fieldsMissing(fields, fd) ==
    IF Len(fields) = 0 THEN <<>>
    ELSE (IF fields[1].required /\ blank(fd, fields[1].name)
          THEN <<fields[1].name>> ELSE <<>>) \o fieldsMissing(Tail(fields), fd)

\* variant of paramsMissing: path parameters are not validated
paramsMissing_unchecked(params, pp) == <<>>

RECURSIVE paramsMissing(_, _)
paramsMissing(params, pp) ==
    IF Len(params) = 0 THEN <<>>
    ELSE (IF params[1].required /\ isPathParam(params[1]) /\ blank(pp, params[1].name)
          THEN <<params[1].name>> ELSE <<>>) \o paramsMissing(Tail(params), pp)

\* variant of missingFields: validation stops at the first violation
missingFields_firstOnly(ep, files, fd, pp) ==
    LET all == fileMissing(ep, files) \o fieldsMissing(formFieldsOf(ep), fd)
                   \o paramsMissing(parametersOf(ep), pp)
    IN  IF Len(all) = 0 THEN <<>> ELSE <<all[1]>>

missingFields(ep, files, fd, pp) ==
    fileMissing(ep, files) \o fieldsMissing(formFieldsOf(ep), fd)
        \o paramsMissing(parametersOf(ep), pp)

RECURSIVE fileEntries(_, _)
fileEntries(name, files) ==
    IF Len(files) = 0 THEN <<>>
    ELSE <<[name |-> name, kind |-> "file", value |-> files[1]]>>
             \o fileEntries(name, Tail(files))

RECURSIVE fieldEntries(_, _)
fieldEntries(fields, fd) ==
    IF Len(fields) = 0 THEN <<>>
    ELSE (IF Has(fd, fields[1].name)
          THEN <<[name |-> fields[1].name, kind |-> "string", value |-> fd[fields[1].name]]>>
          ELSE <<>>) \o fieldEntries(Tail(fields), fd)

\* The FormData body, when one is built
hasBody(ep) ==
    ep.method # "GET" /\ Has(ep, "requestBodyType")
        /\ ep.requestBodyType = "multipart/form-data"

\* variant of formDataBody: the form fields are appended before the files
formDataBody_fieldsFirst(ep, files, fd) ==
    fieldEntries(formFieldsOf(ep), fd)
        \o (IF Has(ep, "fileUpload") THEN fileEntries(ep.fileUpload.name, files) ELSE <<>>)

formDataBody(ep, files, fd) ==
    (IF Has(ep, "fileUpload") THEN fileEntries(ep.fileUpload.name, files) ELSE <<>>)
        \o fieldEntries(formFieldsOf(ep), fd)

\* variant of fetchCall: a Content-Type header is set next to the API key
fetchCall_withContentType(ep, key, files, fd, pp) ==
    IF hasBody(ep)
    THEN [call |-> "fetch", url |-> buildApiUrl(ep, pp), method |-> ep.method,
          headers |-> ("Content-Type" :> "multipart/form-data") @@ [apiKey |-> key],
          body |-> formDataBody(ep, files, fd)]
    ELSE [call |-> "fetch", url |-> buildApiUrl(ep, pp), method |-> ep.method,
          headers |-> [apiKey |-> key]]

\* fetch(url, { method, headers, ...(body && { body }) })
fetchCall(ep, key, files, fd, pp) ==
    IF hasBody(ep)
    THEN [call |-> "fetch", url |-> buildApiUrl(ep, pp), method |-> ep.method,
          headers |-> [apiKey |-> key], body |-> formDataBody(ep, files, fd)]
    ELSE [call |-> "fetch", url |-> buildApiUrl(ep, pp), method |-> ep.method,
          headers |-> [apiKey |-> key]]

toastCall(title, description, variant) ==
    [call |-> "toast", title |-> title, description |-> description, variant |-> variant]

\* variant of tryItDisabled: the button is never disabled
tryItDisabled_never == FALSE

\* <Button onClick={handleApiCall} disabled={isLoading}>
tryItDisabled == isLoading

\* variant of handleApiCall: the previous error, response and status are not
\* cleared before the request is sent
handleApiCall_keepsOutcome ==
    /\ ~tryItDisabled
    /\ Len(inflight) < MaxInflight
    /\ IF trim(apiKey) = ""
       THEN /\ effects' = <<toastCall("Error", "Please enter your API key", "destructive")>>
            /\ UNCHANGED <<endpoints, selectedEndpoint, panelState, inflight>>
       ELSE IF Len(missingFields(endpoint, selectedFiles, formData, pathParams)) > 0
       THEN /\ effects' = <<toastCall("Missing Required Fields",
                               "Please provide: " \o
                                   join(missingFields(endpoint, selectedFiles, formData, pathParams), ", "),
                               "destructive")>>
            /\ UNCHANGED <<endpoints, selectedEndpoint, panelState, inflight>>
       ELSE /\ isLoading' = TRUE
            /\ effects' = <<fetchCall(endpoint, apiKey, selectedFiles, formData, pathParams)>>
            /\ inflight' = Append(inflight, [endpoint |-> endpoint.id, stage |-> "fetch"])
            /\ UNCHANGED <<endpoints, selectedEndpoint, apiKey, selectedFiles, formData,
                           pathParams, error, response, responseStatus>>

\* variant of handleApiCall: the previous outcome is cleared before validation
handleApiCall_clearsFirst ==
    /\ ~tryItDisabled
    /\ Len(inflight) < MaxInflight
    /\ error' = ""
    /\ response' = ""
    /\ responseStatus' = null
    /\ IF trim(apiKey) = ""
       THEN /\ effects' = <<toastCall("Error", "Please enter your API key", "destructive")>>
            /\ UNCHANGED <<endpoints, selectedEndpoint, apiKey, selectedFiles, formData,
                           pathParams, isLoading, inflight>>
       ELSE IF Len(missingFields(endpoint, selectedFiles, formData, pathParams)) > 0
       THEN /\ effects' = <<toastCall("Missing Required Fields",
                               "Please provide: " \o
                                   join(missingFields(endpoint, selectedFiles, formData, pathParams), ", "),
                               "destructive")>>
            /\ UNCHANGED <<endpoints, selectedEndpoint, apiKey, selectedFiles, formData,
                           pathParams, isLoading, inflight>>
       ELSE /\ isLoading' = TRUE
            /\ effects' = <<fetchCall(endpoint, apiKey, selectedFiles, formData, pathParams)>>
            /\ inflight' = Append(inflight, [endpoint |-> endpoint.id, stage |-> "fetch"])
            /\ UNCHANGED <<endpoints, selectedEndpoint, apiKey, selectedFiles, formData,
                           pathParams>>

handleApiCall ==
    /\ ~tryItDisabled
    /\ Len(inflight) < MaxInflight
    /\ IF trim(apiKey) = ""
       THEN /\ effects' = <<toastCall("Error", "Please enter your API key", "destructive")>>
            /\ UNCHANGED <<endpoints, selectedEndpoint, panelState, inflight>>
       ELSE IF Len(missingFields(endpoint, selectedFiles, formData, pathParams)) > 0
       THEN /\ effects' = <<toastCall("Missing Required Fields",
                               "Please provide: " \o
                                   join(missingFields(endpoint, selectedFiles, formData, pathParams), ", "),
                               "destructive")>>
            /\ UNCHANGED <<endpoints, selectedEndpoint, panelState, inflight>>
       ELSE /\ isLoading' = TRUE
            /\ error' = ""
            /\ response' = ""
            /\ responseStatus' = null
            /\ effects' = <<fetchCall(endpoint, apiKey, selectedFiles, formData, pathParams)>>
            /\ inflight' = Append(inflight, [endpoint |-> endpoint.id, stage |-> "fetch"])
            /\ UNCHANGED <<endpoints, selectedEndpoint, apiKey, selectedFiles, formData,
                           pathParams>>

(***************************************************************************)
(* generateCurlCommand, rendered in the cURL card on every render.         *)
(***************************************************************************)
RECURSIVE curlFiles(_, _)
curlFiles(name, files) ==
    IF Len(files) = 0 THEN ""
    ELSE " \\\n  -F \"" \o name \o "=@" \o files[1] \o "\"" \o curlFiles(name, Tail(files))

\* formData[field.name] || field.defaultValue || ""
curlFieldValue(field, fd) ==
    IF truthy(fd, field.name) THEN fd[field.name]
    ELSE IF Has(field, "defaultValue") THEN field.defaultValue ELSE ""

\* the form fields that get a -F argument, with the value shown
RECURSIVE curlFieldEntries(_, _)
curlFieldEntries(fields, fd) ==
    IF Len(fields) = 0 THEN <<>>
    ELSE (IF curlFieldValue(fields[1], fd) # ""
          THEN <<[name |-> fields[1].name, value |-> curlFieldValue(fields[1], fd)]>>
          ELSE <<>>) \o curlFieldEntries(Tail(fields), fd)

RECURSIVE curlFields(_)
curlFields(entries) ==
    IF Len(entries) = 0 THEN ""
    ELSE " \\\n  -F \"" \o entries[1].name \o "=" \o entries[1].value \o "\""
             \o curlFields(Tail(entries))

\* variant of curlHeader: the header shows the key in scope
curlHeader_entered(key) == " \\\n  -H \"apiKey: " \o key \o "\""

\* the -H argument; key is the apiKey state in the scope of the function
curlHeader(key) == " \\\n  -H \"apiKey: YOUR_API_KEY\""

\* the text generateCurlCommand returns in a render with the given state
curlCommand(ep, key, files, fd, pp) ==
    "curl -X " \o ep.method \o " \"" \o buildApiUrl(ep, pp) \o "\""
        \o curlHeader(key)
        \o (IF hasBody(ep)
            THEN (IF Has(ep, "fileUpload") THEN curlFiles(ep.fileUpload.name, files) ELSE "")
                     \o curlFields(curlFieldEntries(formFieldsOf(ep), fd))
            ELSE "")

generateCurlCommand == curlCommand(endpoint, apiKey, selectedFiles, formData, pathParams)

\* {(response || error) && <Card>...}: the Response card, which holds the
\* status badge
responseCardRendered == response # "" \/ error # ""

(***************************************************************************)
(* JSON.parse and JSON.stringify(value, null, 2) on the JSON texts the     *)
(* responses are drawn from: objects, arrays, strings without escape       *)
(* sequences, non-negative integers, true, false and null.  A parsed value *)
(* is [t |-> kind, v |-> payload]; an object keeps its members in          *)
(* insertion order, a repeated key overwriting the earlier value.          *)
(***************************************************************************)
at(s, i) == IF i >= 1 /\ i <= Len(s) THEN SubSeq(s, i, i) ELSE ""
isDigit(c) == c \in {"0", "1", "2", "3", "4", "5", "6", "7", "8", "9"}
parseFail == [ok |-> FALSE]
parsed(v, pos) == [ok |-> TRUE, v |-> v, pos |-> pos]

RECURSIVE skipWs(_, _)
skipWs(s, i) == IF IsWhiteSpace(at(s, i)) THEN skipWs(s, i + 1) ELSE i

\* index of the quote that closes a string whose content starts at i, else 0
RECURSIVE closingQuote(_, _)
closingQuote(s, i) ==
    IF i > Len(s) THEN 0
    ELSE IF at(s, i) = "\"" THEN i
    ELSE IF at(s, i) \in {"\\", "\n", "\r", "\t"} THEN 0
    ELSE closingQuote(s, i + 1)

parseString(s, i) ==
    IF at(s, i) # "\"" \/ closingQuote(s, i + 1) = 0 THEN parseFail
    ELSE parsed([t |-> "str", v |-> SubSeq(s, i + 1, closingQuote(s, i + 1) - 1)],
                closingQuote(s, i + 1) + 1)

RECURSIVE digitsEnd(_, _)
digitsEnd(s, i) == IF isDigit(at(s, i)) THEN digitsEnd(s, i + 1) ELSE i

parseNumber(s, i) ==
    IF at(s, i) = "0" THEN parsed([t |-> "num", v |-> "0"], i + 1)
    ELSE parsed([t |-> "num", v |-> SubSeq(s, i, digitsEnd(s, i) - 1)], digitsEnd(s, i))

startsWith(s, i, w) == i + Len(w) - 1 <= Len(s) /\ SubSeq(s, i, i + Len(w) - 1) = w

parseLiteral(s, i) ==
    IF startsWith(s, i, "true") THEN parsed([t |-> "lit", v |-> "true"], i + 4)
    ELSE IF startsWith(s, i, "null") THEN parsed([t |-> "lit", v |-> "null"], i + 4)
    ELSE IF startsWith(s, i, "false") THEN parsed([t |-> "lit", v |-> "false"], i + 5)
    ELSE parseFail

\* obj[k] = v on the member list
putMember(members, k, v) ==
    IF \E i \in DOMAIN members : members[i].k = k
    THEN [i \in DOMAIN members |-> IF members[i].k = k THEN [k |-> k, v |-> v] ELSE members[i]]
    ELSE Append(members, [k |-> k, v |-> v])

RECURSIVE parseValue(_, _)
RECURSIVE parseElements(_, _, _)
RECURSIVE parseMembers(_, _, _)

parseValue(s, i0) ==
    LET i == skipWs(s, i0)
        c == at(s, i)
    IN  IF c = "{" THEN
            (IF at(s, skipWs(s, i + 1)) = "}"
             THEN parsed([t |-> "obj", v |-> <<>>], skipWs(s, i + 1) + 1)
             ELSE parseMembers(s, i + 1, <<>>))
        ELSE IF c = "[" THEN
            (IF at(s, skipWs(s, i + 1)) = "]"
             THEN parsed([t |-> "arr", v |-> <<>>], skipWs(s, i + 1) + 1)
             ELSE parseElements(s, i + 1, <<>>))
        ELSE IF c = "\"" THEN parseString(s, i)
        ELSE IF isDigit(c) THEN parseNumber(s, i)
        ELSE IF c \in {"t", "f", "n"} THEN parseLiteral(s, i)
        ELSE parseFail

parseElements(s, i, acc) ==
    LET r == parseValue(s, i) IN
    IF ~r.ok THEN parseFail
    ELSE LET j == skipWs(s, r.pos) IN
         IF at(s, j) = "," THEN parseElements(s, j + 1, Append(acc, r.v))
         ELSE IF at(s, j) = "]" THEN parsed([t |-> "arr", v |-> Append(acc, r.v)], j + 1)
         ELSE parseFail

parseMembers(s, i, acc) ==
    LET k == parseString(s, skipWs(s, i)) IN
    IF ~k.ok \/ at(s, skipWs(s, k.pos)) # ":" THEN parseFail
    ELSE LET r == parseValue(s, skipWs(s, k.pos) + 1) IN
         IF ~r.ok THEN parseFail
         ELSE LET j == skipWs(s, r.pos) IN
              IF at(s, j) = "," THEN parseMembers(s, j + 1, putMember(acc, k.v.v, r.v))
              ELSE IF at(s, j) = "}"
                   THEN parsed([t |-> "obj", v |-> putMember(acc, k.v.v, r.v)], j + 1)
              ELSE parseFail

\* JSON.parse(text): [ok |-> FALSE] stands for the SyntaxError it throws
jsonParse(text) ==
    LET r == parseValue(text, 1) IN
    IF r.ok /\ skipWs(text, r.pos) = Len(text) + 1 THEN r ELSE parseFail

RECURSIVE stringify(_, _)
RECURSIVE stringifyElements(_, _)
RECURSIVE stringifyMembers(_, _)

\* JSON.stringify(value, null, 2) at the given current indentation
stringify(value, indent) ==
    IF value.t = "str" THEN "\"" \o value.v \o "\""
    ELSE IF value.t \in {"num", "lit"} THEN value.v
    ELSE IF value.t = "arr" THEN
        (IF Len(value.v) = 0 THEN "[]"
         ELSE "[\n" \o stringifyElements(value.v, indent \o "  ") \o "\n" \o indent \o "]")
    ELSE (IF Len(value.v) = 0 THEN "{}"
          ELSE "{\n" \o stringifyMembers(value.v, indent \o "  ") \o "\n" \o indent \o "}")

stringifyElements(items, indent) ==
    indent \o stringify(items[1], indent)
        \o (IF Len(items) = 1 THEN "" ELSE ",\n" \o stringifyElements(Tail(items), indent))

stringifyMembers(members, indent) ==
    indent \o "\"" \o members[1].k \o "\": " \o stringify(members[1].v, indent)
        \o (IF Len(members) = 1 THEN "" ELSE ",\n" \o stringifyMembers(Tail(members), indent))

\* variant of responseBodyText: the text is stored as received
responseBodyText_raw(text) == text

\* try { setResponse(JSON.stringify(JSON.parse(text), null, 2)) }
\* catch { setResponse(text) }
responseBodyText(text) ==
    IF jsonParse(text).ok THEN stringify(jsonParse(text).v, "") ELSE text

(***************************************************************************)
(* handleApiCall after its awaits: the network answers.                    *)
(***************************************************************************)
HttpResponses ==
    { [status |-> 200, statusText |-> "OK"],
      [status |-> 300, statusText |-> "Multiple Choices"],
      [status |-> 404, statusText |-> "Not Found"] }

ResponseTexts == { "", "not json", "{\"error\":\"missing\"}" }

\* what fetch() and Response.text() reject with
TransportErrors == { [isError |-> TRUE, message |-> "Failed to fetch"] }

\* variant of ok: the upper end of the range is taken inclusive
ok_through300(status) == status >= 200 /\ status <= 300

\* Response.ok
ok(status) == status >= 200 /\ status <= 299

\* variant of catchMessage: the error's own message is dropped
catchMessage_generic(err) == "An unexpected error occurred"

\* err instanceof Error ? err.message : "An unexpected error occurred"
catchMessage(err) == IF err.isError THEN err.message ELSE "An unexpected error occurred"

removeAt(seq, i) == SubSeq(seq, 1, i - 1) \o SubSeq(seq, i + 1, Len(seq))

\* await fetch(url, fetchOptions) resolves; the handler goes on to await text()
fetchResolves(i, r) ==
    /\ i \in DOMAIN inflight
    /\ inflight[i].stage = "fetch"
    /\ inflight' = [inflight EXCEPT ![i] = [endpoint |-> @.endpoint, stage |-> "text",
                                           status |-> r.status, statusText |-> r.statusText]]
    /\ effects' = <<>>
    /\ UNCHANGED <<endpoints, selectedEndpoint, panelState>>

\* await apiResponse.text() resolves: the rest of the try block, then finally
textResolves(i, text) ==
    /\ i \in DOMAIN inflight
    /\ inflight[i].stage = "text"
    /\ responseStatus' = <<inflight[i].status>>
    /\ response' = responseBodyText(text)
    /\ IF ~ok(inflight[i].status)
       THEN /\ error' = "HTTP " \o ToString(inflight[i].status) \o ": " \o inflight[i].statusText
            /\ effects' = <<toastCall("API Error",
                               "Request failed with status " \o ToString(inflight[i].status),
                               "destructive")>>
       ELSE /\ error' = error
            /\ effects' = <<[call |-> "toast", title |-> "Success",
                             description |-> "API request completed successfully"]>>
    /\ isLoading' = FALSE
    /\ inflight' = removeAt(inflight, i)
    /\ UNCHANGED <<endpoints, selectedEndpoint, apiKey, selectedFiles, formData, pathParams>>

\* variant of catchBlock: setIsLoading(false) is not reached after a throw
catchBlock_staysLoading(i, err) ==
    /\ error' = catchMessage(err)
    /\ response' = "Error: " \o catchMessage(err)
    /\ effects' = <<toastCall("Request Failed", catchMessage(err), "destructive")>>
    /\ isLoading' = isLoading
    /\ inflight' = removeAt(inflight, i)
    /\ UNCHANGED <<endpoints, selectedEndpoint, apiKey, selectedFiles, formData, pathParams,
                   responseStatus>>

\* variant of catchBlock: the failed request is sent again
catchBlock_retries(i, err) ==
    /\ effects' = <<fetchCall(endpoint, apiKey, selectedFiles, formData, pathParams)>>
    /\ inflight' = [inflight EXCEPT ![i] = [endpoint |-> inflight[i].endpoint, stage |-> "fetch"]]
    /\ UNCHANGED <<endpoints, selectedEndpoint, panelState>>

\* variant of catchBlock: the failure is recorded without a toast
catchBlock_silent(i, err) ==
    /\ error' = catchMessage(err)
    /\ response' = "Error: " \o catchMessage(err)
    /\ effects' = <<>>
    /\ isLoading' = FALSE
    /\ inflight' = removeAt(inflight, i)
    /\ UNCHANGED <<endpoints, selectedEndpoint, apiKey, selectedFiles, formData, pathParams,
                   responseStatus>>

\* the catch block, then finally
catchBlock(i, err) ==
    /\ error' = catchMessage(err)
    /\ response' = "Error: " \o catchMessage(err)
    /\ effects' = <<toastCall("Request Failed", catchMessage(err), "destructive")>>
    /\ isLoading' = FALSE
    /\ inflight' = removeAt(inflight, i)
    /\ UNCHANGED <<endpoints, selectedEndpoint, apiKey, selectedFiles, formData, pathParams,
                   responseStatus>>

\* await fetch(...) rejects
fetchRejects(i, err) ==
    /\ i \in DOMAIN inflight
    /\ inflight[i].stage = "fetch"
    /\ catchBlock(i, err)

\* await apiResponse.text() rejects
textRejects(i, err) ==
    /\ i \in DOMAIN inflight
    /\ inflight[i].stage = "text"
    /\ catchBlock(i, err)

(***************************************************************************)
(* The page as a state machine.                                            *)
(***************************************************************************)
EndpointIds == { endpoints[i].id : i \in DOMAIN endpoints }
FieldNames == { "query", "tags" }
PathParamNames == { "trace_id" }

UserStep ==
    \/ \E id \in EndpointIds : onSelectEndpoint(id)
    \/ \E value \in ApiKeyInputs : setApiKey(value)
    \/ \E files \in Picks : handleFileSelect(files)
    \/ \E index \in 0..(MaxFiles - 1) : removeFile(index)
    \/ \E name \in FieldNames, value \in FieldInputs : handleFormDataChange(name, value)
    \/ \E name \in PathParamNames, value \in PathParamInputs : handlePathParamChange(name, value)
    \/ handleApiCall

NetworkStep ==
    \/ \E i \in 1..MaxInflight, r \in HttpResponses : fetchResolves(i, r)
    \/ \E i \in 1..MaxInflight, err \in TransportErrors : fetchRejects(i, err)
    \/ \E i \in 1..MaxInflight, text \in ResponseTexts : textResolves(i, text)
    \/ \E i \in 1..MaxInflight, err \in TransportErrors : textRejects(i, err)

Next == UserStep \/ NetworkStep

Spec == Init /\ [][Next]_vars

\* the page over the catalog extended with panelEndpoint
SpecPanel == InitPanel /\ [][Next]_vars

\* every awaited promise is eventually settled
FairSpec == Spec /\ WF_vars(NetworkStep)

\* path parameter values that hold a replacement pattern of String.replace
PathParamProbes == PathParamInputs \cup { "$&", "a$$b" }

\* the page with the file and form inputs left alone and the path parameter
\* typed from PathParamProbes
NextUrl ==
    \/ \E id \in EndpointIds : onSelectEndpoint(id)
    \/ \E value \in ApiKeyInputs : setApiKey(value)
    \/ \E name \in PathParamNames, value \in PathParamProbes : handlePathParamChange(name, value)
    \/ handleApiCall
    \/ NetworkStep

SpecUrl == Init /\ [][NextUrl]_vars

\* the page with the form field and path parameter inputs left alone
NextFiles ==
    \/ \E id \in EndpointIds : onSelectEndpoint(id)
    \/ \E value \in ApiKeyInputs : setApiKey(value)
    \/ \E files \in Picks : handleFileSelect(files)
    \/ \E index \in 0..(MaxFiles - 1) : removeFile(index)
    \/ handleApiCall
    \/ NetworkStep

SpecFiles == Init /\ [][NextFiles]_vars

\* response texts for the JSON handling: text that parses and text that does
\* not, with and without white space around it or a stray character after it
JsonCores ==
    { "{\"status\":\"ok\"}", "{}", "[]", "[ ]", "[1,2]", "[[],{}]",
      "{\"a\":{\"b\":[true,null]},\"c\":\"d\"}", "{ \"a\" : 1 , \"a\" : 2 }",
      "\"s\"", "0", "42", "false",
      "not json", "", "01", "[1,]", "{\"a\":1,}", "{a:1}", "nul", "tru",
      "\"ab", "{\"a\" 1}", "[1 2]", "{\"a\":1" }
JsonPads == { "", " \n" }
JsonTails == { "", "\t", "x" }
JsonProbes ==
    { pad \o core \o tail : pad \in JsonPads, core \in JsonCores, tail \in JsonTails }

\* requests to classify and their answers, the body drawn from JsonProbes
NextJson ==
    \/ \E value \in ApiKeyInputs : setApiKey(value)
    \/ \E files \in Picks : handleFileSelect(files)
    \/ handleApiCall
    \/ \E i \in 1..MaxInflight, r \in HttpResponses : fetchResolves(i, r)
    \/ \E i \in 1..MaxInflight, text \in JsonProbes : textResolves(i, text)

SpecJson == Init /\ [][NextJson]_vars

\* the page listing mockEndpoints: no file, form field or path parameter
\* input is rendered for any of its endpoints
InitMock ==
    /\ endpoints = mockEndpoints
    /\ selectedEndpoint = "classify"
    /\ PanelInit

NextMock ==
    \/ \E id \in EndpointIds : onSelectEndpoint(id)
    \/ \E value \in ApiKeyInputs : setApiKey(value)
    \/ handleApiCall
    \/ NetworkStep

SpecMock == InitMock /\ [][NextMock]_vars

\* the page up to the first request being sent, no answer having arrived
NextCurl ==
    \/ \E id \in EndpointIds : onSelectEndpoint(id)
    \/ \E value \in ApiKeyInputs : setApiKey(value)
    \/ \E files \in Picks : handleFileSelect(files)
    \/ \E index \in 0..(MaxFiles - 1) : removeFile(index)
    \/ \E name \in FieldNames, value \in FieldInputs : handleFormDataChange(name, value)
    \/ \E name \in PathParamNames, value \in PathParamInputs : handlePathParamChange(name, value)
    \/ handleApiCall

SpecCurl == Init /\ [][NextCurl]_vars

(***************************************************************************)
(* Properties.                                                             *)
(***************************************************************************)
fetched(calls) == \E k \in DOMAIN calls : calls[k].call = "fetch"
toasted(calls, title) ==
    \E k \in DOMAIN calls : calls[k].call = "toast" /\ calls[k].title = title
toastDescription(calls) == calls[1].description

\* field.defaultValue, or the empty string without one
defaultOf(field) == IF Has(field, "defaultValue") THEN field.defaultValue ELSE ""

\* C1: a switch of the selected endpoint to a different id leaves, for every
\* form field of the newly selected endpoint, formData[name] equal to the
\* field's defaultValue (the empty string without one).
C1_SwitchResetsFormData ==
    [][\A id \in EndpointIds :
          (id # selectedEndpoint /\ onSelectEndpoint(id)) =>
              \A k \in DOMAIN formFieldsOf(currentEndpointOf(endpoints, id)) :
                  LET field == formFieldsOf(currentEndpointOf(endpoints, id))[k] IN
                  /\ Has(formData', field.name)
                  /\ formData'[field.name] = defaultOf(field)]_vars

\* C2: a switch of the selected endpoint to a different id leaves the list
\* of selected files empty.
C2_SwitchEmptiesSelectedFiles ==
    [][\A id \in EndpointIds :
          (id # selectedEndpoint /\ onSelectEndpoint(id)) => selectedFiles' = <<>>]_vars

\* C3: a switch of the selected endpoint to a different id clears the last
\* outcome: response and error are empty and responseStatus is null.
C3_SwitchClearsOutcome ==
    [][\A id \in EndpointIds :
          (id # selectedEndpoint /\ onSelectEndpoint(id)) =>
              response' = "" /\ error' = "" /\ responseStatus' = null]_vars

requiresFile(ep) == Has(ep, "fileUpload") /\ ep.fileUpload.required
keyEntered == trim(apiKey) # ""

\* a submit that went no further than validation: no request, nothing pending
noRequestStarted ==
    ~fetched(effects') /\ inflight' = inflight /\ isLoading' = FALSE

\* C4 as stated: on an endpoint whose file upload is required, a submit with
\* no file selected reports the missing file field and starts no request.
C4_RequiredFileAlwaysReported ==
    [][(handleApiCall /\ requiresFile(endpoint) /\ selectedFiles = <<>>) =>
          /\ toasted(effects', "Missing Required Fields")
          /\ startsWith(toastDescription(effects'), 1, "Please provide: file(s)")
          /\ noRequestStarted]_vars

\* C4 (amended): on an endpoint whose file upload is required, a submit with
\* no file selected starts no request and never raises isLoading; when the
\* API key is not blank it reports the missing fields, the file field first.
C4_RequiredFileBlocksSubmit ==
    [][(handleApiCall /\ requiresFile(endpoint) /\ selectedFiles = <<>>) =>
          /\ noRequestStarted
          /\ keyEntered =>
                /\ toasted(effects', "Missing Required Fields")
                /\ startsWith(toastDescription(effects'), 1, "Please provide: file(s)")]_vars

C4_Witness ==
    /\ requiresFile(endpoint)
    /\ selectedFiles = <<>>
    /\ keyEntered
    /\ toasted(effects, "Missing Required Fields")
    /\ startsWith(toastDescription(effects), 1, "Please provide: file(s)")

\* a required form field or required path parameter of the endpoint whose
\* value is absent or empty once surrounding white space is removed
requiredInputBlank ==
    \/ \E k \in DOMAIN formFieldsOf(endpoint) :
          LET f == formFieldsOf(endpoint)[k] IN
          f.required /\ (f.name \notin DOMAIN formData \/ trim(formData[f.name]) = "")
    \/ \E k \in DOMAIN parametersOf(endpoint) :
          LET q == parametersOf(endpoint)[k] IN
          q.required /\ isPathParam(q)
              /\ (q.name \notin DOMAIN pathParams \/ trim(pathParams[q.name]) = "")

\* C5: a submit starts no request whenever a required form field or a
\* required path parameter is missing or blank after trimming.
C5_BlankRequiredInputBlocksSubmit ==
    [][(handleApiCall /\ requiredInputBlank) => noRequestStarted]_vars

\* a white-space-only required field and a white-space-only required path
\* parameter have each just been refused
C5_Witness ==
    /\ keyEntered
    /\ toasted(effects, "Missing Required Fields")
    /\ \/ "query" \in DOMAIN formData /\ formData["query"] = " "
             /\ toastDescription(effects) = "Please provide: query"
       \/ "trace_id" \in DOMAIN pathParams /\ pathParams["trace_id"] = " "
             /\ toastDescription(effects) = "Please provide: trace_id"

\* the names validation is expected to report, in the stated order
expectedFileName == IF requiresFile(endpoint) /\ selectedFiles = <<>> THEN <<"file(s)">> ELSE <<>>
fieldIsMissing(f) == f.required /\ (f.name \notin DOMAIN formData \/ trim(formData[f.name]) = "")
paramIsMissing(q) ==
    q.required /\ isPathParam(q) /\ (q.name \notin DOMAIN pathParams \/ trim(pathParams[q.name]) = "")
namesOf(rs) == [k \in DOMAIN rs |-> rs[k].name]
expectedMissing ==
    expectedFileName
        \o namesOf(SelectSeq(formFieldsOf(endpoint), fieldIsMissing))
        \o namesOf(SelectSeq(parametersOf(endpoint), paramIsMissing))

\* C6: a submit with an API key and missing required inputs reports exactly
\* the missing ones, all of them: the files, then the form fields in catalog
\* order, then the path parameters in catalog order.
C6_AllViolationsInOrder ==
    [][(handleApiCall /\ keyEntered /\ Len(expectedMissing) > 0) =>
          effects' = <<toastCall("Missing Required Fields",
                                 "Please provide: " \o join(expectedMissing, ", "),
                                 "destructive")>>]_vars

C6_Witness ==
    /\ selectedEndpoint = "panel"
    /\ toasted(effects, "Missing Required Fields")
    /\ toastDescription(effects) = "Please provide: file(s), query, trace_id"

\* C7: isLoading is true exactly while a validated submission awaits its
\* outcome, on every exit path (answer with any status, transport failure),
\* and, the awaited promises being settled eventually, a raised isLoading
\* is always lowered again.
C7_LoadingUntilOutcomeRecorded ==
    /\ [](isLoading <=> Len(inflight) > 0)
    /\ isLoading ~> ~isLoading

\* a submission that ended in the catch block has lowered isLoading
C7_Witness ==
    /\ toasted(effects, "Request Failed")
    /\ ~isLoading
    /\ inflight = <<>>

\* C8: at most one submission is pending at any time, whatever the user does
\* (switching endpoints included) while the answer is awaited.
C8_SinglePendingSubmission == Len(inflight) <= 1

\* a submission is pending while another endpoint has been selected
C8_Witness ==
    /\ isLoading
    /\ Len(inflight) = 1
    /\ inflight[1].endpoint # selectedEndpoint

\* C9 as stated: when fetch rejects, error is the transport error's message
\* and response is empty.
C9_TransportFailureLeavesBodyEmpty ==
    [][\A i \in 1..MaxInflight, err \in TransportErrors :
          fetchRejects(i, err) => error' = err.message /\ response' = ""]_vars

\* C9 (amended): when fetch rejects, error is the transport error's message,
\* response is "Error: " followed by that message, and responseStatus stays
\* null.
C9_TransportFailureRecorded ==
    [][\A i \in 1..MaxInflight, err \in TransportErrors :
          fetchRejects(i, err) =>
              /\ error' = err.message
              /\ response' = "Error: " \o err.message
              /\ responseStatus' = null]_vars

C9_Witness ==
    /\ toasted(effects, "Request Failed")
    /\ error = "Failed to fetch"
    /\ response = "Error: Failed to fetch"
    /\ responseStatus = null

\* the text JSON.stringify(JSON.parse(text), null, 2) gives for the response
\* texts that parse
prettyPrinted(text) ==
    IF text = "{\"error\":\"missing\"}" THEN "{\n  \"error\": \"missing\"\n}" ELSE text

\* C10: an answer with a status in [200,300) is a success and leaves error
\* empty; any other status sets error to "HTTP <status>: <statusText>"; in
\* both cases the status is recorded and the body is stored, pretty-printed
\* when it parses.
C10_StatusClassification ==
    [][\A i \in 1..MaxInflight, text \in ResponseTexts :
          textResolves(i, text) =>
              LET status == inflight[i].status IN
              /\ responseStatus' = <<status>>
              /\ response' = prettyPrinted(text)
              /\ (status >= 200 /\ status < 300) =>
                    error' = "" /\ toasted(effects', "Success")
              /\ ~(status >= 200 /\ status < 300) =>
                    /\ error' = "HTTP " \o ToString(status) \o ": " \o inflight[i].statusText
                    /\ toasted(effects', "API Error")]_vars

\* the answer 404 Not Found with the body {"error":"missing"} has been recorded
C10_Witness ==
    /\ responseStatus = <<404>>
    /\ error = "HTTP 404: Not Found"
    /\ response = "{\n  \"error\": \"missing\"\n}"
    /\ toasted(effects, "API Error")

\* the request the last step handed to fetch, and its FormData entries
requestSent == fetched(effects)
request == effects[1]
bodySent == requestSent /\ Has(request, "body")
catalogIndex(name) ==
    CHOOSE i \in DOMAIN formFieldsOf(endpoint) : formFieldsOf(endpoint)[i].name = name

\* C11: the body of a request to a non-GET multipart endpoint starts with one
\* entry per selected file, each under the fileUpload's field name and in
\* selection order; every entry after them is a form-field entry carrying
\* the field's value, and the form-field entries follow the catalog order.
C11_FilesThenFieldsInOrder ==
    bodySent =>
        LET body == request.body
            n == Len(selectedFiles)
        IN  /\ Len(body) >= n
            /\ \A k \in 1..n :
                   body[k] = [name |-> endpoint.fileUpload.name, kind |-> "file",
                              value |-> selectedFiles[k]]
            /\ \A k \in (n + 1)..Len(body) :
                   /\ body[k].kind = "string"
                   /\ \E i \in DOMAIN formFieldsOf(endpoint) :
                          formFieldsOf(endpoint)[i].name = body[k].name
                   /\ body[k].value = formData[body[k].name]
            /\ \A j, k \in (n + 1)..Len(body) :
                   j < k => catalogIndex(body[j].name) < catalogIndex(body[k].name)

\* two files and both form fields went out in one body
C11_Witness ==
    /\ bodySent
    /\ selectedFiles = <<"A", "B">>
    /\ Len(request.body) = 4
    /\ request.body[3].name = "query"
    /\ request.body[4].name = "tags"

\* C12 as stated: the body of a request to a non-GET multipart endpoint has
\* an entry for every form field of the endpoint, required or not, carrying
\* the field's current value, or the empty string when the field has no
\* value in formData.
C12_EveryFormFieldInBody ==
    bodySent =>
        \A i \in DOMAIN formFieldsOf(endpoint) :
            \E k \in DOMAIN request.body :
                request.body[k] =
                    [name |-> formFieldsOf(endpoint)[i].name, kind |-> "string",
                     value |-> IF Has(formData, formFieldsOf(endpoint)[i].name)
                               THEN formData[formFieldsOf(endpoint)[i].name]
                               ELSE ""]

\* s with every occurrence of pat replaced by the characters of value
RECURSIVE substituteAll(_, _, _)
substituteAll(s, pat, value) ==
    IF indexOf(s, pat) = 0 THEN s
    ELSE SubSeq(s, 1, indexOf(s, pat) - 1) \o value
             \o substituteAll(SubSeq(s, indexOf(s, pat) + Len(pat), Len(s)), pat, value)

RECURSIVE resolvedPath(_, _, _)
resolvedPath(path, params, pp) ==
    IF Len(params) = 0 THEN path
    ELSE resolvedPath(IF isPathParam(params[1])
                      THEN substituteAll(path, "{" \o params[1].name \o "}", pp[params[1].name])
                      ELSE path,
                      Tail(params), pp)

\* C13 as stated: the URL of a request is the base host followed by the
\* endpoint's path with every {name} placeholder replaced by the value
\* entered for name; for /v1/trace_id/{trace_id} and the value abc123 the
\* path part is /v1/trace_id/abc123.
C13_PlaceholdersReplacedByValues ==
    requestSent =>
        /\ request.url = BaseUrl \o resolvedPath(endpoint.path, parametersOf(endpoint), pathParams)
        /\ (endpoint.path = "/v1/trace_id/{trace_id}" /\ pathParams["trace_id"] = "abc123")
               => request.url = BaseUrl \o "/v1/trace_id/abc123"

placeholder(name) == "{" \o name \o "}"
pathParamsOf(ep) ==
    { parametersOf(ep)[i] : i \in { j \in DOMAIN parametersOf(ep) : isPathParam(parametersOf(ep)[j]) } }

\* C14 as stated: a submit that passes every other validation while a path
\* parameter has no value still sends the request, its URL holding the
\* literal {name} placeholder.
C14_UnsetPathParamStillSent ==
    [][\A p \in pathParamsOf(endpoint) :
          (/\ handleApiCall
           /\ keyEntered
           /\ ~truthy(pathParams, p.name)
           /\ Len(fileMissing(endpoint, selectedFiles)) = 0
           /\ Len(fieldsMissing(formFieldsOf(endpoint), formData)) = 0)
          => /\ fetched(effects')
             /\ indexOf(effects'[1].url, placeholder(p.name)) > 0]_vars

\* C14, amended: a submit made while a required path parameter has no value
\* (unset, empty or whitespace only) sends no request and, with an API key
\* entered, reports "Missing Required Fields"; the {name} placeholder of a
\* parameter without a value is left verbatim only in the URL buildApiUrl
\* returns for display.
C14_UnsetPathParamFailsFast ==
    [][\A p \in pathParamsOf(endpoint) :
          /\ (handleApiCall /\ p.required /\ blank(pathParams, p.name))
                 => /\ noRequestStarted
                    /\ keyEntered => toasted(effects', "Missing Required Fields")
          /\ ~truthy(pathParams, p.name)
                 => indexOf(buildApiUrl(endpoint, pathParams), placeholder(p.name)) > 0]_vars

\* the trace endpoint was submitted with a key and without a trace id
C14_Witness ==
    /\ selectedEndpoint = "trace"
    /\ keyEntered
    /\ ~truthy(pathParams, "trace_id")
    /\ toasted(effects, "Missing Required Fields")
    /\ toastDescription(effects) = "Please provide: trace_id"
    /\ inflight = <<>>

outcomeCleared == response = "" /\ error = "" /\ responseStatus = null

\* C15: a submit that sends a request clears response, error and
\* responseStatus in the same step; they stay cleared while the request is
\* pending; and when the request ends, each of the three either is written
\* from that request's answer or still holds its cleared value: a success
\* leaves error empty, a failure to get an answer leaves responseStatus null.
C15_OutcomeOfThisExecutionOnly ==
    /\ [](isLoading => outcomeCleared)
    /\ [][/\ (handleApiCall /\ fetched(effects')) => outcomeCleared'
          /\ (isLoading /\ ~isLoading') =>
                 /\ toasted(effects', "Success") =>
                        error' = "" /\ responseStatus' # null
                 /\ toasted(effects', "API Error") =>
                        error' # "" /\ responseStatus' # null
                 /\ toasted(effects', "Request Failed") =>
                        /\ responseStatus' = null
                        /\ error' # ""
                        /\ response' = "Error: " \o error']_vars

\* a request that was answered 200 has ended with no error left on display
C15_Witness ==
    /\ toasted(effects, "Success")
    /\ ~isLoading
    /\ error = ""
    /\ responseStatus = <<200>>
    /\ response = "not json"

\* C16: on an endpoint whose fileUpload has multiple false, selecting files
\* leaves selectedFiles holding the first supplied file alone, or nothing when
\* none was supplied ([A, B] yields [A]); on an endpoint that allows multiple
\* files the supplied files are appended, in order, to the files already
\* selected ([A] then [B] yields [A, B]).
C16_SelectReplacesOrAppends ==
    [][\A files \in Picks :
          handleFileSelect(files) =>
              IF endpoint.fileUpload.multiple
              THEN /\ Len(selectedFiles') = Len(selectedFiles) + Len(files)
                   /\ \A k \in DOMAIN selectedFiles : selectedFiles'[k] = selectedFiles[k]
                   /\ \A k \in DOMAIN files : selectedFiles'[Len(selectedFiles) + k] = files[k]
                   /\ (selectedFiles = <<"A">> /\ files = <<"B">>)
                          => selectedFiles' = <<"A", "B">>
              ELSE /\ Len(files) = 0 => selectedFiles' = <<>>
                   /\ Len(files) > 0 => selectedFiles' = <<files[1]>>
                   /\ files = <<"A", "B">> => selectedFiles' = <<"A">>]_vars

\* files were selected one after the other on an endpoint that allows several
C16_Witness ==
    /\ Has(endpoint, "fileUpload")
    /\ endpoint.fileUpload.multiple
    /\ selectedFiles = <<"A", "B">>
    /\ effects = <<>>

\* C17: a switch of the selected endpoint leaves apiKey as it was.
C17_SwitchKeepsApiKey ==
    [][\A id \in EndpointIds : onSelectEndpoint(id) => apiKey' = apiKey]_vars

\* a request made on classify with the key k is pending, trace has been
\* selected since, and the key is still k
C17_Witness ==
    /\ Len(inflight) = 1
    /\ inflight[1].endpoint = "classify"
    /\ selectedEndpoint = "trace"
    /\ apiKey = "k"
    /\ effects = <<>>

\* C18: the headers of every request sent are the one header apiKey, with
\* the value of the API key input; there is no Content-Type header, with a
\* multipart body or without.
C18_OnlyApiKeyHeader ==
    requestSent =>
        /\ DOMAIN request.headers = { "apiKey" }
        /\ request.headers["apiKey"] = apiKey
        /\ "Content-Type" \notin DOMAIN request.headers

\* a multipart request went out with the key k
C18_Witness ==
    /\ bodySent
    /\ Len(request.body) > 0
    /\ request.method = "POST"
    /\ request.headers = [apiKey |-> "k"]

fetchCount(calls) == Cardinality({ k \in DOMAIN calls : calls[k].call = "fetch" })

\* C19: a submit that passes validation calls fetch exactly once and no other
\* step calls fetch at all; a request that ends in a failure, an answer
\* outside 200..299 or a rejected promise, leaves nothing pending and
\* the button enabled, with no further request made on its behalf.
C19_OneCallNoRetry ==
    [][/\ (keyEntered /\ Len(expectedMissing) = 0 /\ handleApiCall)
              => fetchCount(effects') = 1 /\ Len(inflight') = Len(inflight) + 1
       /\ (fetchCount(effects') > 0 \/ Len(inflight') > Len(inflight))
              => handleApiCall /\ fetchCount(effects') = 1
       /\ (toasted(effects', "API Error") \/ toasted(effects', "Request Failed"))
              => inflight' = <<>> /\ ~isLoading']_vars

\* a request was answered outside 200..299 and nothing is pending after it
C19_Witness ==
    /\ toasted(effects, "API Error")
    /\ fetchCount(effects) = 0
    /\ inflight = <<>>
    /\ ~isLoading
    /\ responseStatus = <<300>>

\* what JSON.stringify(JSON.parse(core), null, 2) returns for the cores that
\* are JSON texts
parsesAsJson(core) ==
    core \in { "{\"status\":\"ok\"}", "{}", "[]", "[ ]", "[1,2]", "[[],{}]",
               "{\"a\":{\"b\":[true,null]},\"c\":\"d\"}", "{ \"a\" : 1 , \"a\" : 2 }",
               "\"s\"", "0", "42", "false" }
reserialized(core) ==
    CASE core = "{\"status\":\"ok\"}" -> "{\n  \"status\": \"ok\"\n}"
      [] core = "[ ]" -> "[]"
      [] core = "[1,2]" -> "[\n  1,\n  2\n]"
      [] core = "[[],{}]" -> "[\n  [],\n  {}\n]"
      [] core = "{\"a\":{\"b\":[true,null]},\"c\":\"d\"}" ->
             "{\n  \"a\": {\n    \"b\": [\n      true,\n      null\n    ]\n  },\n  \"c\": \"d\"\n}"
      [] core = "{ \"a\" : 1 , \"a\" : 2 }" -> "{\n  \"a\": 2\n}"
      [] OTHER -> core

\* C20: a response text that parses as JSON is stored re-serialized with an
\* indentation of two spaces per level; a text that does not parse is stored
\* as received, white space included.
C20_PrettyPrintedOrRaw ==
    [][\A pad \in JsonPads, core \in JsonCores, tail \in JsonTails :
          textResolves(1, pad \o core \o tail) =>
              response' = IF parsesAsJson(core) /\ tail # "x"
                          THEN reserialized(core)
                          ELSE pad \o core \o tail]_vars

\* the body {"status":"ok"} of a 200 answer is on display, pretty-printed
C20_Witness ==
    /\ response = "{\n  \"status\": \"ok\"\n}"
    /\ responseStatus = <<200>>
    /\ toasted(effects, "Success")

RECURSIVE placeholdersOf(_)
placeholdersOf(path) ==
    LET open == indexOf(path, "{")
        rest == SubSeq(path, open + 1, Len(path))
        close == indexOf(rest, "}")
    IN  IF open = 0 \/ close = 0 THEN {}
        ELSE { SubSeq(rest, 1, close - 1) }
                 \cup placeholdersOf(SubSeq(rest, close + 1, Len(rest)))

\* C22 as stated: in the catalog the page lists, no two endpoints share an
\* id, and the {name} placeholders of every endpoint's path are exactly the
\* names of its parameters located in the path.
C22_CatalogWellFormed ==
    /\ \A i, j \in DOMAIN endpoints : i # j => endpoints[i].id # endpoints[j].id
    /\ \A i \in DOMAIN endpoints :
           placeholdersOf(endpoints[i].path)
               = { p.name : p \in pathParamsOf(endpoints[i]) }

fileEntryCount(body) == Cardinality({ k \in DOMAIN body : body[k].kind = "file" })

\* C23 as stated: a request sent for an endpoint whose fileUpload does not
\* allow multiple files holds at most one file entry.
C23_SingleFileEndpointSendsOneFile ==
    (bodySent /\ Has(endpoint, "fileUpload") /\ ~endpoint.fileUpload.multiple)
        => fileEntryCount(request.body) <= 1

\* C24 as stated: when the outcome of a request is recorded, the selected
\* endpoint is the endpoint the request was built from.
C24_OutcomeRecordedForSelectedEndpoint ==
    [][(Len(inflight) > 0 /\ isLoading /\ ~isLoading')
          => inflight[1].endpoint = selectedEndpoint']_vars

\* C25: a submit made with an empty or white-space-only API key shows the
\* one notification "Please enter your API key" and nothing else: no fetch,
\* no report of missing fields, and isLoading, response, error and
\* responseStatus are as before.
C25_BlankKeyOnlyNotifies ==
    [][(handleApiCall /\ apiKey \in { "", " " }) =>
          /\ effects' = <<[call |-> "toast", title |-> "Error",
                           description |-> "Please enter your API key",
                           variant |-> "destructive"]>>
          /\ UNCHANGED <<isLoading, response, error, responseStatus, inflight>>]_vars

\* the key was blanked after an answer arrived, the required file is missing,
\* and the submit reported the key alone
C25_Witness ==
    /\ apiKey = " "
    /\ requiresFile(endpoint)
    /\ selectedFiles = <<>>
    /\ toasted(effects, "Error")
    /\ Len(effects) = 1
    /\ error = "HTTP 404: Not Found"
    /\ responseStatus = <<404>>

\* C26: a submit rejected by validation, for a blank API key or for missing
\* required inputs, leaves response, error, responseStatus and isLoading as
\* they were, and sends nothing: the outcome of the previous request stays
\* on display.
C26_RejectedSubmitKeepsOutcome ==
    [][(handleApiCall /\ (~keyEntered \/ Len(expectedMissing) > 0)) =>
          /\ UNCHANGED <<response, error, responseStatus, isLoading>>
          /\ ~fetched(effects')
          /\ Len(effects') = 1
          /\ effects'[1].call = "toast"]_vars

\* the answer 404 of an earlier request is still shown after a submit that
\* reported missing fields
C26_Witness ==
    /\ toasted(effects, "Missing Required Fields")
    /\ response = "{\n  \"error\": \"missing\"\n}"
    /\ error = "HTTP 404: Not Found"
    /\ responseStatus = <<404>>
    /\ ~isLoading

\* C27: in every state the cURL text starts with the command line followed
\* by the header apiKey: YOUR_API_KEY, and it is the text rendered from the
\* same endpoint, files, form data and path parameters with any other API
\* key: the entered key has no part in it.
C27_CurlHidesApiKey ==
    /\ startsWith(generateCurlCommand, 1,
                  "curl -X " \o endpoint.method \o " \""
                      \o buildApiUrl(endpoint, pathParams)
                      \o "\" \\\n  -H \"apiKey: YOUR_API_KEY\"")
    /\ \A key \in ApiKeyInputs :
           curlCommand(endpoint, key, selectedFiles, formData, pathParams)
               = generateCurlCommand

\* a key is entered next to a selected file and the cURL text shows the
\* placeholder
C27_Witness ==
    /\ apiKey = "k"
    /\ selectedFiles = <<"A">>
    /\ selectedEndpoint = "classify"
    /\ generateCurlCommand =
           "curl -X POST \"https://kong-uat-proxy.hachiai.com/quest/v1/classify\""
               \o " \\\n  -H \"apiKey: YOUR_API_KEY\" \\\n  -F \"file=@A\""

isFieldEntry(entry) == entry.kind = "string"
bodyFieldEntries(body) ==
    LET fields == SelectSeq(body, isFieldEntry)
    IN  [k \in DOMAIN fields |-> [name |-> fields[k].name, value |-> fields[k].value]]

\* C28 as stated: when a request with a multipart body has been sent, the
\* form fields shown as -F arguments of the cURL text, names and values, are
\* the form-field entries of that body.
C28_CurlFieldsAreBodyFields ==
    bodySent =>
        curlFieldEntries(formFieldsOf(endpoint), formData) = bodyFieldEntries(request.body)

toastTitles(calls) ==
    [k \in DOMAIN SelectSeq(calls, LAMBDA c : c.call = "toast") |->
        SelectSeq(calls, LAMBDA c : c.call = "toast")[k].title]

\* C29: a submit rejected by validation shows exactly one toast, "Error" for
\* the API key or "Missing Required Fields"; a submit that sends the request
\* shows none until the request ends, and the step that ends it shows
\* exactly one, "Success", "API Error" or "Request Failed".
C29_OneNotificationPerSubmit ==
    [][/\ (handleApiCall /\ ~fetched(effects')) =>
              /\ Len(toastTitles(effects')) = 1
              /\ toastTitles(effects')[1] \in { "Error", "Missing Required Fields" }
       /\ isLoading' => Len(toastTitles(effects')) = 0
       /\ (isLoading /\ ~isLoading') =>
              /\ Len(toastTitles(effects')) = 1
              /\ toastTitles(effects')[1] \in { "Success", "API Error", "Request Failed" }]_vars

\* a request that got no answer has ended with its one toast
C29_Witness ==
    /\ toastTitles(effects) = <<"Request Failed">>
    /\ responseStatus = null
    /\ ~isLoading
    /\ keyEntered

\* C30 as stated: when a request that was sent has ended, with an answer in
\* 200..299, with another answer or without one, the Response card is
\* rendered, so the recorded status is on display.
C30_OutcomeAlwaysDisplayed ==
    [][(isLoading /\ ~isLoading') => responseCardRendered']_vars

====
